---- MODULE Spec2Model ----
(***************************************************************************)
(* A model of the dubbing pipeline of backend/dub_video.py (with the       *)
(* single-language variant backend/dub_to_english.py where it differs):    *)
(* the model caches, the per-segment synthesis chain, the timing           *)
(* reconciler, the track compositor and the orchestrating main().          *)
(***************************************************************************)
EXTENDS Integers, Sequences, FiniteSets, TLC

(***************************************************************************)
(* Languages.                                                              *)
(***************************************************************************)

\* dub_video.py:45
SUPPORTED_LANGUAGES == <<"en", "ml", "hi", "ta">>

\* "fr" stands for any language code outside the tables of the program.
Langs == {"en", "ml", "hi", "ta", "fr"}

SupportedSet == {SUPPORTED_LANGUAGES[i] : i \in 1..Len(SUPPORTED_LANGUAGES)}

\* dub_video.py:209  (the MMS-TTS languages)
MmsLanguages == {"ml", "hi", "ta"}

Pairs == Langs \X Langs

(***************************************************************************)
(* The model caches: the dictionaries _tts_models and _translation_models. *)
(* A dictionary is a function to its values, "absent" for a key that is    *)
(* not in the dictionary; "None" is the stored value None.                 *)
(***************************************************************************)

CacheValues == {"absent", "model", "None"}

\* keys of _tts_models: '<lang>_tts' and '<lang>_tokenizer'
TtsKeys == Langs \X {"tts", "tokenizer"}

VARIABLES
    tts_models,          \* _tts_models
    translation_models,  \* _translation_models
    tts_loads,           \* per language: load attempts started for its TTS model
    trans_loads,         \* per pair: load attempts started for its translation model
    failed_loads,        \* the requests whose load attempt has failed
    lastReq              \* the last finished cache request and what it did

cacheVars == <<tts_models, translation_models, tts_loads, trans_loads, failed_loads, lastReq>>

EmptyTts == [k \in TtsKeys |-> "absent"]
EmptyTrans == [p \in Pairs |-> "absent"]

NoReq == [kind |-> "none", key |-> <<>>, hit |-> FALSE, attempted |-> FALSE, result |-> "None"]

\* dict.get(key): None for a key that is not in the dictionary
DictGet(d, k) == IF d[k] = "absent" THEN "None" ELSE d[k]

\* a faulty variant: a cached None counts as "not in the dictionary"
InDict_Truthy(d, k) == d[k] = "model"

\* "key in dict"  (dub_video.py:133, 148, 162, 176, 243)
InDict(d, k) == d[k] # "absent"

\* a faulty variant: a failed load leaves the dictionary as it was
StoreNone_Forget(d, k) == d

\* "_tts_models[key] = None" / "_translation_models[key] = None" in the except branch
StoreNone(d, k) == [d EXCEPT ![k] = "None"]

\* lang_map of get_translation_model: the pairs with a Helsinki-NLP model name
LangMapNamed == {<<"en", "ml">>, <<"en", "hi">>, <<"en", "ta">>}

\* the outcomes of a load: of Coqui TTS (en), of tokenizer-then-model (ml, hi, ta),
\* of a Marian tokenizer and model
TtsLoadOutcomes(lang) ==
    IF lang = "en" THEN {"ok", "fail"}
    ELSE {"ok", "tokenizer_fail", "model_fail"}

TransLoadOutcomes == {"ok", "fail"}

\* the try body of get_tts_model_for_language for a key that is not cached
TtsLoadBody(d, lang, outcome) ==
    IF lang = "en"
    THEN IF outcome = "ok"
         THEN [d EXCEPT ![<<"en", "tts">>] = "model"]
         ELSE StoreNone(d, <<"en", "tts">>)
    ELSE CASE outcome = "ok" ->
                [d EXCEPT ![<<lang, "tokenizer">>] = "model", ![<<lang, "tts">>] = "model"]
           [] outcome = "tokenizer_fail" ->
                StoreNone(d, <<lang, "tts">>)
           [] OTHER ->
                StoreNone([d EXCEPT ![<<lang, "tokenizer">>] = "model"], <<lang, "tts">>)

\* get_tts_model_for_language(language): the dictionary after the call, the value
\* returned, and whether a load was started
get_tts_model_for_language(d, lang, outcome) ==
    IF lang \notin SupportedSet
    THEN [dict |-> d, result |-> "None", attempted |-> FALSE, hit |-> FALSE]
    ELSE IF InDict(d, <<lang, "tts">>)
         THEN [dict |-> d, result |-> DictGet(d, <<lang, "tts">>),
               attempted |-> FALSE, hit |-> TRUE]
         ELSE LET d2 == TtsLoadBody(d, lang, outcome)
              IN [dict |-> d2, result |-> DictGet(d2, <<lang, "tts">>),
                  attempted |-> TRUE, hit |-> FALSE]

\* the try body of get_translation_model for a key that is not cached
TransLoadBody(d, pair, outcome) ==
    IF pair \in LangMapNamed
    THEN IF outcome = "ok"
         THEN [d EXCEPT ![pair] = "model"]
         ELSE StoreNone(d, pair)
    ELSE [d EXCEPT ![pair] = "None"]

get_translation_model(d, pair, outcome) ==
    IF InDict(d, pair)
    THEN [dict |-> d, result |-> DictGet(d, pair), attempted |-> FALSE, hit |-> TRUE]
    ELSE LET d2 == TransLoadBody(d, pair, outcome)
         IN [dict |-> d2, result |-> DictGet(d2, pair),
             attempted |-> pair \in LangMapNamed, hit |-> FALSE]

(***************************************************************************)
(* Bookkeeping of a finished request (ghost state: the load counters, the  *)
(* failed loads, the last request).                                        *)
(***************************************************************************)

MaxLoads == 3

TtsFailed(outcome) == outcome # "ok"

NoteTts(lang, r, outcome) ==
    /\ tts_loads' = IF r.attempted THEN [tts_loads EXCEPT ![lang] = @ + 1] ELSE tts_loads
    /\ failed_loads' = IF r.attempted /\ TtsFailed(outcome)
                       THEN failed_loads \cup {<<"tts", lang>>} ELSE failed_loads
    /\ lastReq' = [kind |-> "tts", key |-> <<lang>>, hit |-> r.hit,
                   attempted |-> r.attempted, result |-> r.result]

NoteTrans(pair, r, outcome) ==
    /\ trans_loads' = IF r.attempted THEN [trans_loads EXCEPT ![pair] = @ + 1] ELSE trans_loads
    /\ failed_loads' = IF r.attempted /\ outcome # "ok"
                       THEN failed_loads \cup {<<"trans", pair>>} ELSE failed_loads
    /\ lastReq' = [kind |-> "trans", key |-> pair, hit |-> r.hit,
                   attempted |-> r.attempted, result |-> r.result]

InitCache ==
    /\ tts_models = EmptyTts
    /\ translation_models = EmptyTrans
    /\ tts_loads = [l \in Langs |-> 0]
    /\ trans_loads = [p \in Pairs |-> 0]
    /\ failed_loads = {}
    /\ lastReq = NoReq

(***************************************************************************)
(* Text: a string is a sequence of one-character strings.                  *)
(***************************************************************************)

LowerLetters == {"a", "b"}
UpperLetters == {"A", "B"}
Whitespace == {" "}
LeadingPunctuation == {",", ".", "!", "?"}

\* str.upper() of one character
UpperChar(c) == CASE c = "a" -> "A" [] c = "b" -> "B" [] OTHER -> c

RECURSIVE StripLeft(_)
StripLeft(s) ==
    IF s # <<>> /\ Head(s) \in Whitespace THEN StripLeft(Tail(s)) ELSE s

RECURSIVE StripRight(_)
StripRight(s) ==
    IF s # <<>> /\ s[Len(s)] \in Whitespace THEN StripRight(SubSeq(s, 1, Len(s) - 1)) ELSE s

\* str.strip()
Strip(s) == StripRight(StripLeft(s))

\* the least j > i with s[j] = c, or 0
RECURSIVE FindFrom(_, _, _)
FindFrom(s, c, j) ==
    IF j > Len(s) THEN 0
    ELSE IF s[j] = c THEN j ELSE FindFrom(s, c, j + 1)

\* re.sub(open + '.*?' + close, '', s): every leftmost shortest span, left to right
RECURSIVE RemoveSpans(_, _, _)
RemoveSpans(s, open, close) ==
    IF s = <<>> THEN <<>>
    ELSE IF Head(s) = open /\ FindFrom(s, close, 2) # 0
         THEN RemoveSpans(SubSeq(s, FindFrom(s, close, 2) + 1, Len(s)), open, close)
         ELSE <<Head(s)>> \o RemoveSpans(Tail(s), open, close)

\* the end of the run of letters that starts at j (j - 1 when s[j] is no letter)
RECURSIVE LettersEnd(_, _)
LettersEnd(s, j) ==
    IF j <= Len(s) /\ s[j] \in (LowerLetters \cup UpperLetters)
    THEN LettersEnd(s, j + 1) ELSE j - 1

\* the length of a match of <\|[a-z]+\|> (IGNORECASE) at the head of s, or 0
TagLength(s) ==
    IF Len(s) >= 5 /\ s[1] = "<" /\ s[2] = "|"
    THEN LET e == LettersEnd(s, 3)
         IN IF e >= 3 /\ e + 2 <= Len(s) /\ s[e + 1] = "|" /\ s[e + 2] = ">"
            THEN e + 2 ELSE 0
    ELSE 0

RECURSIVE RemoveTags(_)
RemoveTags(s) ==
    IF s = <<>> THEN <<>>
    ELSE IF TagLength(s) > 0
         THEN RemoveTags(SubSeq(s, TagLength(s) + 1, Len(s)))
         ELSE <<Head(s)>> \o RemoveTags(Tail(s))

\* re.sub(r'\s+', ' ', s)
RECURSIVE CollapseSpaces(_)
CollapseSpaces(s) ==
    IF s = <<>> THEN <<>>
    ELSE IF Head(s) \in Whitespace
         THEN <<" ">> \o CollapseSpaces(StripLeft(s))
         ELSE <<Head(s)>> \o CollapseSpaces(Tail(s))

RECURSIVE DropPunctuation(_)
DropPunctuation(s) ==
    IF s # <<>> /\ Head(s) \in LeadingPunctuation THEN DropPunctuation(Tail(s)) ELSE s

\* re.sub(r'^\s*[,.!?]+', '', s)
StripLeadingPunctuation(s) ==
    LET t == StripLeft(s)
    IN IF t # <<>> /\ Head(t) \in LeadingPunctuation THEN DropPunctuation(t) ELSE s

\* the capitalisation of the first character
Capitalize(s) ==
    IF s # <<>> /\ Head(s) \notin UpperLetters
    THEN <<UpperChar(Head(s))>> \o Tail(s)
    ELSE s

\* clean_translation_text(text)
clean_translation_text(text) ==
    IF text = <<>> THEN <<>>
    ELSE LET t1 == RemoveTags(text)
             t2 == RemoveSpans(t1, "[", "]")
             t3 == RemoveSpans(t2, "(", ")")
             t4 == RemoveSpans(t3, "~", "~")
             t5 == CollapseSpaces(t4)
             t6 == StripLeadingPunctuation(t5)
         IN Capitalize(Strip(t6))

(***************************************************************************)
(* Time.  Every time value (a segment bound, a clip duration, the video    *)
(* duration; floats of seconds in the program) is a whole number of ticks, *)
(* TicksPerMs ticks to the millisecond, so that int(x * 1000) is           *)
(* x \div TicksPerMs milliseconds.                                         *)
(***************************************************************************)

TicksPerMs == 2

\* the length of the slot of a segment
SlotTicks == 4

\* a video duration that is a whole number of milliseconds when TicksPerMs = 2
VideoTicks == 8

\* int(seconds * 1000), in milliseconds
IntMs(ticks) == ticks \div TicksPerMs

Max(a, b) == IF a >= b THEN a ELSE b
Min(a, b) == IF a <= b THEN a ELSE b

(***************************************************************************)
(* TimingReconciler: adjust_audio_speed.  A speed is a fraction <<n, d>>.  *)
(***************************************************************************)

FracLess(x, y) == x[1] * y[2] < y[1] * x[2]
FracEq(x, y) == x[1] * y[2] = y[1] * x[2]
FracLeq(x, y) == x[1] * y[2] <= y[1] * x[2]

\* dub_video.py:114
SPEED_MIN == <<1, 2>>
SPEED_MAX == <<5, 2>>
\* dub_video.py:116
SINGLE_STAGE_MAX == <<2, 1>>

\* a faulty variant: the ratio is not clamped
ClampSpeed_None(raw, target) == <<raw, target>>

\* a faulty variant: only the upper limit is applied
ClampSpeed_UpperOnly(raw, target) ==
    IF FracLess(SPEED_MAX, <<raw, target>>) THEN SPEED_MAX ELSE <<raw, target>>

\* speed = max(0.5, min(2.5, current_duration / target_duration))
ClampSpeed(raw, target) ==
    LET ratio == <<raw, target>>
    IN IF FracLess(ratio, SPEED_MIN) THEN SPEED_MIN
       ELSE IF FracLess(SPEED_MAX, ratio) THEN SPEED_MAX
       ELSE ratio

\* a faulty variant: one atempo stage whatever the speed
TempoStages_Single(speed) == << speed >>

\* the atempo stages of filter_str
TempoStages(speed) ==
    IF FracLess(SINGLE_STAGE_MAX, speed)
    THEN << <<speed[1], 2 * speed[2]>>, <<2, 1>> >>
    ELSE << speed >>

\* the duration of a clip of duration raw played through the stages
RECURSIVE Stretch(_, _)
Stretch(raw, stages) ==
    IF stages = <<>> THEN <<raw, 1>>
    ELSE LET r == Stretch(raw, Tail(stages))
         IN <<r[1] * Head(stages)[2], r[2] * Head(stages)[1]>>

StretchedTicks(raw, stages) == LET r == Stretch(raw, stages) IN r[1] \div r[2]

ProbeOutcomes == {"ok", "unparsable"}
TempoOutcomes == {"ok", "no_output"}

\* a faulty variant: only the clip's own duration is tested
NonPositive_RawOnly(raw, target) == raw <= 0

\* "if current_duration <= 0 or target_duration <= 0"
NonPositive(raw, target) == raw <= 0 \/ target <= 0

\* adjust_audio_speed(input_path, output_path, target_duration): whether the output
\* file exists afterwards, its duration, the stages applied, whether it is a copy
adjust_audio_speed(raw, target, probe, tempo) ==
    IF probe = "unparsable"
    THEN [exists |-> TRUE, dur |-> raw, stages |-> <<>>, copied |-> TRUE]
    ELSE IF NonPositive(raw, target)
    THEN [exists |-> TRUE, dur |-> raw, stages |-> <<>>, copied |-> TRUE]
    ELSE LET stages == TempoStages(ClampSpeed(raw, target))
         IN IF tempo = "ok"
            THEN [exists |-> TRUE, dur |-> StretchedTicks(raw, stages),
                  stages |-> stages, copied |-> FALSE]
            ELSE [exists |-> FALSE, dur |-> 0, stages |-> stages, copied |-> FALSE]

(***************************************************************************)
(* SpeechSynthesisDispatcher: generate_tts_with_model.                     *)
(***************************************************************************)

\* what a backend does on one text: writes the file, raises, or returns without a file
NeuralOutcomes == {"ok", "raise", "no_file"}
GttsOutcomes == {"ok", "raise"}

\* dub_video.py:195
MIN_TTS_CHARS == 2

\* does the call use the cached neural model (rather than gTTS)?
UsesNeural(language, model, dict) ==
    CASE language = "en" -> model = "model"
      [] language \in MmsLanguages ->
            model = "model" /\ InDict(dict, <<language, "tokenizer">>)
      [] OTHER -> FALSE

\* generate_tts_with_model(text, output_path, language, model): the value returned,
\* whether output_path exists afterwards, and the backends invoked with what they did
generate_tts_with_model(text, language, model, dict, neural, gtts) ==
    IF text = <<>> \/ Len(Strip(text)) < MIN_TTS_CHARS
    THEN [success |-> FALSE, file |-> FALSE, attempts |-> <<>>]
    ELSE IF UsesNeural(language, model, dict)
         THEN [success |-> neural # "raise", file |-> neural = "ok",
               attempts |-> << <<"neural", neural>> >>]
         ELSE [success |-> gtts = "ok", file |-> gtts = "ok",
               attempts |-> << <<"gtts", gtts>> >>]

(***************************************************************************)
(* TrackCompositor: merge_with_timing, merge_with_ffmpeg, the silent track.*)
(* A track is its duration in ticks and its timeline: for every tick the   *)
(* set of segment indices whose clip sounds there.                         *)
(***************************************************************************)

NoTrack == [exists |-> FALSE, mode |-> "none", dur |-> 0, timeline |-> <<>>]

\* AudioSegment.silent(duration=int(total_duration * 1000)), in ticks
SilentBaseTicks(total) == IntMs(total) * TicksPerMs

\* the clips when the merge runs: the files of the clips numbered in gone are
\* missing or cannot be read by then
ClipFiles(clips, gone) == [k \in 1..Len(clips) |-> [clips[k] EXCEPT !.file = k \notin gone]]

\* "if not Path(seg['tts_file']).exists(): continue" and the except branch around
\* AudioSegment.from_file: the clips the loops of the merge use
UsableClips(clips) == SelectSeq(clips, LAMBDA c : c.file)

\* the ticks of the base a clip covers: from int(start * 1000) ms on, cut at the end
\* of the base (AudioSegment.overlay never lengthens the base)
ClipSounds(clip, t) ==
    LET pos == IntMs(clip.start) * TicksPerMs
    IN pos <= t /\ t < pos + clip.dur

RECURSIVE OverlayAll(_, _)
OverlayAll(base, clips) ==
    IF clips = <<>> THEN base
    ELSE OverlayAll([t \in 1..Len(base) |->
                        IF ClipSounds(Head(clips), t - 1)
                        THEN base[t] \cup {Head(clips).index} ELSE base[t]],
                    Tail(clips))

\* a faulty variant: the loop runs over the clips from the last to the first
OverlaySteps_Reversed(clips) ==
    LET used == UsableClips(clips)
    IN [k \in 1..Len(used) |-> [index |-> used[Len(used) + 1 - k].index,
                                position |-> IntMs(used[Len(used) + 1 - k].start)]]

\* "for seg in segments: ... base = base.overlay(audio, position=start_ms)": the calls
\* of overlay in the order the loop makes them, each with its clip and its position in
\* milliseconds
OverlaySteps(clips) ==
    LET used == UsableClips(clips)
    IN [k \in 1..Len(used) |-> [index |-> used[k].index, position |-> IntMs(used[k].start)]]

RECURSIVE LastClipEnd(_)
LastClipEnd(clips) ==
    IF clips = <<>> THEN 0
    ELSE Max(IntMs(Head(clips).start) * TicksPerMs + Head(clips).dur, LastClipEnd(Tail(clips)))

\* a faulty variant: a clip that runs past the end lengthens the base
OverlayTrack_Grow(clips, total) ==
    LET need == Max(SilentBaseTicks(total), LastClipEnd(clips))
    IN [exists |-> TRUE, mode |-> "overlay", dur |-> need,
        timeline |-> OverlayAll([t \in 1..need |-> {}], UsableClips(clips))]

\* the try body of merge_with_timing: the exported track
OverlayTrack(clips, total) ==
    [exists |-> TRUE, mode |-> "overlay", dur |-> SilentBaseTicks(total),
     timeline |-> OverlayAll([t \in 1..SilentBaseTicks(total) |-> {}], UsableClips(clips))]

\* the clips written end to end by the ffmpeg concat demuxer
RECURSIVE ConcatTimeline(_)
ConcatTimeline(clips) ==
    IF clips = <<>> THEN <<>>
    ELSE [t \in 1..Head(clips).dur |-> {Head(clips).index}] \o ConcatTimeline(Tail(clips))

\* apad=pad_dur=total_duration, -t total_duration
PadOrCut(timeline, total) ==
    [t \in 1..total |-> IF t <= Len(timeline) THEN timeline[t] ELSE {}]

ConcatOutcomes == {"ok", "no_output"}

\* what the ffmpeg commands of merge_with_ffmpeg do with the list written to
\* concat.txt: the concat demuxer writes nothing for a list without a file
ConcatResult(clips, concat) == IF UsableClips(clips) = <<>> THEN "no_output" ELSE concat

\* merge_with_ffmpeg(segments, output_path, total_duration, temp_dir)
merge_with_ffmpeg(clips, total, concat) ==
    IF ConcatResult(clips, concat) = "ok"
    THEN [exists |-> TRUE, mode |-> "concat", dur |-> total,
          timeline |-> PadOrCut(ConcatTimeline(UsableClips(clips)), total)]
    ELSE NoTrack

\* what the import and the overlay/export of merge_with_timing do
OverlayOutcomes == {"ok", "import_error", "error"}

\* merge_with_timing(segments, output_path, total_duration, temp_dir): the file at
\* output_path afterwards
merge_with_timing(clips, total, overlay, concat) ==
    CASE overlay = "ok" -> OverlayTrack(clips, total)
      [] overlay = "import_error" -> merge_with_ffmpeg(clips, total, concat)
      [] OTHER -> NoTrack

\* the strategies merge_with_timing runs: the overlay, and merge_with_ffmpeg when
\* the import of pydub fails
MergeLog(overlay, concat) ==
    IF overlay = "import_error"
    THEN << <<"overlay", overlay>>, <<"concat", concat>> >>
    ELSE << <<"overlay", overlay>> >>

\* ffmpeg -f lavfi -i anullsrc -t total_duration
SilentTrack(total) ==
    [exists |-> TRUE, mode |-> "silent", dur |-> total, timeline |-> [t \in 1..total |-> {}]]

(***************************************************************************)
(* The state of one call of create_dub_track and of one call of            *)
(* adjust_audio_speed on its own.                                          *)
(***************************************************************************)

VARIABLES
    pc,              \* the position of the run
    cdt_ret,         \* create_dub_track: where its caller continues
    target_lang,     \* create_dub_track: target_lang
    segments,        \* create_dub_track: segments
    total_duration,  \* create_dub_track: total_duration
    tts_model,       \* create_dub_track: tts_model
    seg_i,           \* create_dub_track: the segment the loop is at (i + 1)
    tts_segments,    \* create_dub_track: tts_segments
    lastSeg,         \* what the last pass of the segment loop did
    no_clip,         \* the indices whose synthesis was tried and gave no clip
    merged,          \* the file merged_<lang>.wav after the merge (NoTrack: no file)
    merge_log        \* the merge strategies run for the track, each with its outcome

trackVars == <<pc, cdt_ret, target_lang, segments, total_duration, tts_model, seg_i,
               tts_segments, lastSeg, no_clip, merged, merge_log>>

NoAdjust == [exists |-> FALSE, dur |-> 0, stages |-> <<>>, copied |-> FALSE]
NoTts == [success |-> FALSE, file |-> FALSE, attempts |-> <<>>]
NoSeg == [index |-> -1, stage |-> "none", text |-> <<>>, tts |-> NoTts,
          raw |-> 0, target |-> 0, adjust |-> NoAdjust, clip |-> FALSE]

InitTrackIdle ==
    /\ pc = "idle"
    /\ cdt_ret = "idle"
    /\ target_lang = "en"
    /\ segments = <<>>
    /\ total_duration = 0
    /\ tts_model = "None"
    /\ seg_i = 0
    /\ tts_segments = <<>>
    /\ lastSeg = NoSeg
    /\ no_clip = {}
    /\ merged = NoTrack
    /\ merge_log = <<>>

VARIABLES
    sp_in,   \* adjust_audio_speed on its own: the call (raw and target duration, outcomes)
    sp_out   \* its result, and the duration of the clip create_dub_track then uses

speedVars == <<sp_in, sp_out>>

NoSpeedIn == [raw |-> 0, target |-> 0, probe |-> "ok", tempo |-> "ok"]
NoSpeedOut == [done |-> FALSE, adjust |-> NoAdjust, clip_dur |-> 0]

InitSpeedIdle ==
    /\ sp_in = NoSpeedIn
    /\ sp_out = NoSpeedOut

(***************************************************************************)
(* The state of main() of dub_video.py.                                    *)
(***************************************************************************)

VARIABLES
    args,               \* the command line: target_langs, all_dubs, keep_temp
    temp_dir,           \* does the temporary directory exist?
    video_duration,     \* video_duration
    detected_lang,      \* detected_lang
    segments_original,  \* segments_original
    source_languages,   \* source_languages
    target_langs,       \* target_langs
    segments_english,   \* segments_english
    audio_tracks,       \* audio_tracks
    lang_i,             \* the position of "for target_lang in target_langs"
    video_files,        \* video_files: per language the output file, <<>> for no key
    manifest,           \* the manifest file
    exit_code,          \* the exit status of the process, -1 while it runs
    whisper_calls,      \* the calls of whisper_model.transcribe so far, by task
    mux_attempts,       \* the ffmpeg runs that write an output video: language, file, mapping, outcome
    output_file         \* dub_to_english.py: does the output video exist?

runVars == <<args, temp_dir, video_duration, detected_lang, segments_original,
             source_languages, target_langs, segments_english, audio_tracks, lang_i,
             video_files, manifest, exit_code, whisper_calls, mux_attempts, output_file>>

muxVars == <<mux_attempts, output_file>>

NoArgs == [target_langs |-> <<>>, all_dubs |-> FALSE, keep_temp |-> FALSE]
NoManifest == [written |-> FALSE, source_language |-> "en", source_languages |-> {},
               audio_tracks |-> <<>>, video_files |-> [l \in Langs |-> <<>>]]

InitRunIdle ==
    /\ args = NoArgs
    /\ temp_dir = FALSE
    /\ video_duration = 0
    /\ detected_lang = "en"
    /\ segments_original = <<>>
    /\ source_languages = {}
    /\ target_langs = <<>>
    /\ segments_english = <<>>
    /\ audio_tracks = <<>>
    /\ lang_i = 0
    /\ video_files = [l \in Langs |-> <<>>]
    /\ manifest = NoManifest
    /\ exit_code = -1
    /\ whisper_calls = [transcribe |-> 0, translate |-> 0]
    /\ mux_attempts = <<>>
    /\ output_file = FALSE

(***************************************************************************)
(* Concurrent callers of the cache functions (SpecConc): each caller runs  *)
(* one call of get_tts_model_for_language or get_translation_model, whose  *)
(* membership test, load and store are separate steps of a thread.         *)
(***************************************************************************)

NumCallers == 2

Callers == 1..NumCallers

VARIABLES
    cpc,    \* per caller: "idle", "load" (the test missed), "store" (the load ended), "done"
    creq,   \* per caller: the request it makes
    cout,   \* per caller: the outcome of its load
    cres    \* per caller: the value returned to it

concVars == <<cpc, creq, cout, cres>>

InitConcIdle ==
    /\ cpc = [t \in Callers |-> "idle"]
    /\ creq = [t \in Callers |-> <<>>]
    /\ cout = [t \in Callers |-> "ok"]
    /\ cres = [t \in Callers |-> "None"]

vars == <<cacheVars, concVars, trackVars, speedVars, runVars>>

(***************************************************************************)
(* SpecSeq: any sequence of model requests of one single-threaded run.     *)
(***************************************************************************)

SeqLangs == {"en", "ml", "fr"}

\* the pairs requested in SpecSeq: a named pair, a pair mapped to None, an unmapped pair
SeqPairs == {<<"en", "ml">>, <<"ml", "en">>, <<"en", "fr">>}

RequestTts(lang) ==
    /\ tts_loads[lang] < MaxLoads
    /\ \E outcome \in TtsLoadOutcomes(lang) :
          LET r == get_tts_model_for_language(tts_models, lang, outcome)
          IN /\ tts_models' = r.dict
             /\ NoteTts(lang, r, outcome)
             /\ UNCHANGED <<translation_models, trans_loads, concVars, trackVars, speedVars, runVars>>

RequestTrans(pair) ==
    /\ trans_loads[pair] < MaxLoads
    /\ \E outcome \in TransLoadOutcomes :
          LET r == get_translation_model(translation_models, pair, outcome)
          IN /\ translation_models' = r.dict
             /\ NoteTrans(pair, r, outcome)
             /\ UNCHANGED <<tts_models, tts_loads, concVars, trackVars, speedVars, runVars>>

InitSeq == InitCache /\ InitConcIdle /\ InitTrackIdle /\ InitSpeedIdle /\ InitRunIdle

NextSeq ==
    \/ \E lang \in SeqLangs : RequestTts(lang)
    \/ \E pair \in SeqPairs : RequestTrans(pair)

SpecSeq == InitSeq /\ [][NextSeq]_vars

(***************************************************************************)
(* SpecConc.                                                               *)
(***************************************************************************)

ConcRequests == {<<"tts", "en">>, <<"tts", "ml">>, <<"trans", <<"en", "hi">> >>}

ReqOutcomes(req) ==
    IF req[1] = "tts" THEN TtsLoadOutcomes(req[2]) ELSE TransLoadOutcomes

ReqLoads(req) == IF req[1] = "tts" THEN tts_loads[req[2]] ELSE trans_loads[req[2]]

ReqCached(req) ==
    IF req[1] = "tts" THEN InDict(tts_models, <<req[2], "tts">>)
    ELSE InDict(translation_models, req[2])

ReqValue(req) ==
    IF req[1] = "tts" THEN DictGet(tts_models, <<req[2], "tts">>)
    ELSE DictGet(translation_models, req[2])

\* the call and its membership test: a hit returns the cached value at once
ConcCall(t, req) ==
    /\ cpc[t] = "idle"
    /\ creq' = [creq EXCEPT ![t] = req]
    /\ IF ReqCached(req)
       THEN /\ cpc' = [cpc EXCEPT ![t] = "done"]
            /\ cres' = [cres EXCEPT ![t] = ReqValue(req)]
       ELSE /\ cpc' = [cpc EXCEPT ![t] = "load"]
            /\ UNCHANGED cres
    /\ UNCHANGED <<cacheVars, cout, trackVars, speedVars, runVars>>

\* the blocking load (from_pretrained, TTS(...)) of a caller whose test missed
ConcLoad(t) ==
    /\ cpc[t] = "load"
    /\ \E outcome \in ReqOutcomes(creq[t]) : cout' = [cout EXCEPT ![t] = outcome]
    /\ cpc' = [cpc EXCEPT ![t] = "store"]
    /\ IF creq[t][1] = "tts"
       THEN /\ tts_loads' = [tts_loads EXCEPT ![creq[t][2]] = @ + 1]
            /\ UNCHANGED trans_loads
       ELSE /\ trans_loads' = [trans_loads EXCEPT ![creq[t][2]] = @ + 1]
            /\ UNCHANGED tts_loads
    /\ UNCHANGED <<tts_models, translation_models, failed_loads, lastReq, creq, cres,
                   trackVars, speedVars, runVars>>

\* the store of what the load gave, and the return of dict.get(key)
ConcStore(t) ==
    /\ cpc[t] = "store"
    /\ cpc' = [cpc EXCEPT ![t] = "done"]
    /\ IF creq[t][1] = "tts"
       THEN LET d2 == TtsLoadBody(tts_models, creq[t][2], cout[t])
            IN /\ tts_models' = d2
               /\ cres' = [cres EXCEPT ![t] = DictGet(d2, <<creq[t][2], "tts">>)]
               /\ UNCHANGED translation_models
       ELSE LET d2 == TransLoadBody(translation_models, creq[t][2], cout[t])
            IN /\ translation_models' = d2
               /\ cres' = [cres EXCEPT ![t] = DictGet(d2, creq[t][2])]
               /\ UNCHANGED tts_models
    /\ failed_loads' = IF cout[t] # "ok" THEN failed_loads \cup {creq[t]} ELSE failed_loads
    /\ UNCHANGED <<tts_loads, trans_loads, lastReq, creq, cout, trackVars, speedVars, runVars>>

InitConc == InitCache /\ InitConcIdle /\ InitTrackIdle /\ InitSpeedIdle /\ InitRunIdle

NextConc ==
    \/ \E t \in Callers, req \in ConcRequests : ConcCall(t, req)
    \/ \E t \in Callers : ConcLoad(t)
    \/ \E t \in Callers : ConcStore(t)

SpecConc == InitConc /\ [][NextConc]_vars

(***************************************************************************)
(* create_dub_track(segments, target_lang, temp_dir, total_duration).      *)
(***************************************************************************)

\* dub_video.py:372
MIN_SEGMENT_CHARS == 3

\* the durations a synthesized clip can have: one that fits its slot, one five
\* times as long
RawDurations == {SlotTicks, 5 * SlotTicks}

\* "if not text or len(text.strip()) < 3: continue"
SkippedRaw(text) == text = <<>> \/ Len(Strip(text)) < MIN_SEGMENT_CHARS

\* the backend that wrote the clip
ClipBackend(tts) == tts.attempts[Len(tts.attempts)][1]

\* a faulty variant: the clip is always the adjusted file
ClipDuration_Adjusted(adj, raw) == adj.dur

\* "'tts_file': str(tts_adj) if tts_adj.exists() else str(tts_raw)": the duration
\* of the file the clip names
ClipDuration(adj, raw) == IF adj.exists THEN adj.dur ELSE raw

\* tts_model = get_tts_model_for_language(target_lang)
CdtStart ==
    /\ pc = "cdt_start"
    /\ \E outcome \in TtsLoadOutcomes(target_lang) :
          LET r == get_tts_model_for_language(tts_models, target_lang, outcome)
          IN /\ tts_models' = r.dict
             /\ NoteTts(target_lang, r, outcome)
             /\ tts_model' = r.result
    /\ seg_i' = 1
    /\ tts_segments' = <<>>
    /\ no_clip' = {}
    /\ lastSeg' = NoSeg
    /\ merged' = NoTrack
    /\ merge_log' = <<>>
    /\ pc' = IF segments = <<>> THEN "cdt_merge" ELSE "cdt_segment"
    /\ UNCHANGED <<translation_models, trans_loads, cdt_ret, target_lang, segments,
                   total_duration>>

AfterSegment == IF seg_i = Len(segments) THEN "cdt_merge" ELSE "cdt_segment"

\* one pass of "for i, seg in enumerate(segments)"
CdtSegment ==
    /\ pc = "cdt_segment"
    /\ LET seg == segments[seg_i]
           text == clean_translation_text(seg.text)
           base == [NoSeg EXCEPT !.index = seg_i - 1]
       IN IF SkippedRaw(seg.text)
          THEN /\ lastSeg' = [base EXCEPT !.stage = "skipped_raw"]
               /\ UNCHANGED <<tts_segments, no_clip>>
          ELSE IF text = <<>>
          THEN /\ lastSeg' = [base EXCEPT !.stage = "skipped_clean"]
               /\ UNCHANGED <<tts_segments, no_clip>>
          ELSE \E neural \in NeuralOutcomes, gtts \in GttsOutcomes :
                 LET tts == generate_tts_with_model(text, target_lang, tts_model,
                                                    tts_models, neural, gtts)
                 IN IF tts.success /\ tts.file
                    THEN \E raw \in RawDurations, probe \in ProbeOutcomes,
                            tempo \in TempoOutcomes :
                           LET adj == adjust_audio_speed(raw, seg.end - seg.start,
                                                         probe, tempo)
                               clip == [index |-> seg_i - 1, start |-> seg.start,
                                        end |-> seg.end,
                                        dur |-> ClipDuration(adj, raw),
                                        backend |-> ClipBackend(tts), file |-> TRUE]
                           IN /\ tts_segments' = Append(tts_segments, clip)
                              /\ lastSeg' = [base EXCEPT !.stage = "synth", !.text = text,
                                               !.tts = tts, !.raw = raw,
                                               !.target = seg.end - seg.start,
                                               !.adjust = adj, !.clip = TRUE]
                              /\ UNCHANGED no_clip
                    ELSE /\ lastSeg' = [base EXCEPT !.stage = "synth", !.text = text,
                                          !.tts = tts]
                         /\ no_clip' = IF tts.attempts # <<>>
                                       THEN no_clip \cup {seg_i - 1} ELSE no_clip
                         /\ UNCHANGED tts_segments
    /\ seg_i' = seg_i + 1
    /\ pc' = AfterSegment
    /\ UNCHANGED <<cacheVars, cdt_ret, target_lang, segments, total_duration, tts_model,
                   merged, merge_log>>

\* the merge of the clips, or the silent track, and the return
CdtMerge ==
    /\ pc = "cdt_merge"
    /\ IF tts_segments # <<>>
       THEN \E overlay \in OverlayOutcomes, concat \in ConcatOutcomes,
               gone \in SUBSET (1..Len(tts_segments)) :
               LET clips == ClipFiles(tts_segments, gone)
               IN /\ tts_segments' = clips
                  /\ merged' = merge_with_timing(clips, total_duration, overlay, concat)
                  /\ merge_log' = MergeLog(overlay, ConcatResult(clips, concat))
       ELSE /\ merged' = SilentTrack(total_duration)
            /\ merge_log' = << <<"silent", "ok">> >>
            /\ UNCHANGED tts_segments
    /\ lastSeg' = NoSeg
    /\ pc' = cdt_ret
    /\ UNCHANGED <<cacheVars, cdt_ret, target_lang, segments, total_duration, tts_model,
                   seg_i, no_clip>>

(***************************************************************************)
(* SpecTrack: one call of create_dub_track in a fresh process.             *)
(***************************************************************************)

MaxSegs == 2

\* raw segment texts: a sentence, two letters, an annotation alone, an annotation
\* before two letters
Texts == { <<"a", "b", "a">>, <<"a", "b">>, <<"[", "a", "]">>, <<"(", "a", ")", "a", "b">> }

\* the segment lists of an ASR result: ordered, one slot after the other
SegmentAt(k, text) == [start |-> (k - 1) * SlotTicks, end |-> k * SlotTicks, text |-> text]

SegmentLists(texts) ==
    UNION { { [k \in 1..n |-> SegmentAt(k, f[k])] : f \in [1..n -> texts] } : n \in 0..MaxSegs }

VideoDurations == {VideoTicks, VideoTicks + 1}

TrackLangs == {"en", "ml", "fr"}

InitTrack ==
    /\ InitCache /\ InitConcIdle /\ InitSpeedIdle /\ InitRunIdle
    /\ pc = "cdt_start"
    /\ cdt_ret = "cdt_done"
    /\ target_lang \in TrackLangs
    /\ segments \in SegmentLists(Texts)
    /\ total_duration \in VideoDurations
    /\ tts_model = "None"
    /\ seg_i = 0
    /\ tts_segments = <<>>
    /\ lastSeg = NoSeg
    /\ no_clip = {}
    /\ merged = NoTrack
    /\ merge_log = <<>>

NextTrack ==
    \/ CdtStart /\ UNCHANGED <<concVars, speedVars, runVars>>
    \/ CdtSegment /\ UNCHANGED <<concVars, speedVars, runVars>>
    \/ CdtMerge /\ UNCHANGED <<concVars, speedVars, runVars>>

SpecTrack == InitTrack /\ [][NextTrack]_vars

(***************************************************************************)
(* TranslationRouter: translate_segments.                                  *)
(***************************************************************************)

\* what the translation model writes for a text (the letters exchanged: a text that
\* differs from its source, of the same length)
SwapChar(c) == CASE c = "a" -> "b" [] c = "b" -> "a" [] c = "A" -> "B" [] c = "B" -> "A"
                 [] OTHER -> c

TranslatedText(text) == [k \in 1..Len(text) |-> SwapChar(text[k])]

TranslateOutcomes == {"ok", "raise"}

\* a faulty variant: the translated segment starts at zero
TranslateOne_Retimed(seg, outcome) ==
    IF Strip(seg.text) # <<>> /\ outcome = "ok"
    THEN [start |-> 0, end |-> seg.end - seg.start, text |-> TranslatedText(Strip(seg.text))]
    ELSE seg

\* the loop body of translate_segments for one segment
TranslateOne(seg, outcome) ==
    IF Strip(seg.text) # <<>> /\ outcome = "ok"
    THEN [start |-> seg.start, end |-> seg.end, text |-> TranslatedText(Strip(seg.text))]
    ELSE seg

\* a faulty variant: the test of the Whisper branch looks at the source language only
translate_segments_SourceTest(segs, src, tgt, dict, load, outcomes, pivot) ==
    [segments |-> pivot, dict |-> dict, requested |-> FALSE, whisper |-> src = "en",
     req |-> [dict |-> dict, result |-> "None", attempted |-> FALSE, hit |-> FALSE]]

\* translate_segments(segments, src_lang, tgt_lang, whisper_model, audio_path): the
\* list returned, the dictionary afterwards and the cache request it made (none:
\* NoReq); whisper is TRUE when it calls whisper_model.transcribe(task='translate'),
\* whose segments are then those of pivot
translate_segments(segs, src, tgt, dict, load, outcomes, pivot) ==
    IF tgt = "en" /\ src # "en"
    THEN [segments |-> pivot, dict |-> dict, requested |-> FALSE, whisper |-> TRUE,
          req |-> [dict |-> dict, result |-> "None", attempted |-> FALSE, hit |-> FALSE]]
    ELSE IF src = "en" /\ tgt # "en"
    THEN LET r == get_translation_model(dict, <<"en", tgt>>, load)
         IN [segments |-> IF r.result = "model"
                          THEN [k \in 1..Len(segs) |-> TranslateOne(segs[k], outcomes[k])]
                          ELSE segs,
             dict |-> r.dict, requested |-> TRUE, whisper |-> FALSE, req |-> r]
    ELSE [segments |-> segs, dict |-> dict, requested |-> FALSE, whisper |-> FALSE,
          req |-> [dict |-> dict, result |-> "None", attempted |-> FALSE, hit |-> FALSE]]

(***************************************************************************)
(* DubPipelineOrchestrator: main() of dub_video.py.                        *)
(***************************************************************************)

\* the characters of the Malayalam, Devanagari and Tamil Unicode ranges
ScriptLanguage(c) ==
    CASE c = "u0D2E" -> "ml" [] c = "u0928" -> "hi" [] c = "u0BA4" -> "ta" [] OTHER -> "none"

SeqRange(q) == {q[k] : k \in 1..Len(q)}

\* a faulty variant: only the primary detected language is a source language
detect_mixed_languages_PrimaryOnly(detected, segs) == {detected}

\* detect_mixed_languages(result)
detect_mixed_languages(detected, segs) ==
    {detected} \cup
    ({ ScriptLanguage(c) : c \in UNION { SeqRange(segs[k].text) : k \in 1..Len(segs) } }
     \ {"none"})

\* [lang for lang in SUPPORTED_LANGUAGES if lang not in source_languages]
RECURSIVE AllOtherLanguages(_, _)
AllOtherLanguages(langs, sources) ==
    IF langs = <<>> THEN <<>>
    ELSE (IF Head(langs) \in sources THEN <<>> ELSE <<Head(langs)>>)
         \o AllOtherLanguages(Tail(langs), sources)

\* "if args.all_dubs or not args.target_langs: ... else: ..."
TargetLanguages(a, sources) ==
    IF a.all_dubs \/ a.target_langs = <<>>
    THEN AllOtherLanguages(SUPPORTED_LANGUAGES, sources)
    ELSE a.target_langs

\* a faulty variant: the workspace is removed whatever --keep_temp says
AfterFinally_Always(exists, keep_temp) == FALSE

\* "if not args.keep_temp: shutil.rmtree(temp_dir, ignore_errors=True)": whether
\* the workspace exists afterwards
AfterFinally(exists, keep_temp) == exists /\ keep_temp

\* the finally block of main
Finally == temp_dir' = AfterFinally(temp_dir, args.keep_temp)

OriginalTrack(lang) == [path |-> <<"original_audio", lang>>, name |-> <<"Original", lang>>,
                        lang |-> lang]
DubTrack(lang) == [path |-> <<"merged", lang>>, name |-> <<"AI Dubbed", lang>>, lang |-> lang]

MaxTargets == 2

\* the languages of --target_langs
RequestLanguages == {"en", "ml", "fr"}

\* the lists of target languages, each language at most once
TargetLists ==
    UNION { { t \in [1..n -> RequestLanguages] : \A i, j \in 1..n : t[i] = t[j] => i = j } :
            n \in 1..MaxTargets }

\* the command lines: all-dubs mode (no --target_langs, or --all_dubs, also next to a
\* list), or a list of target languages
RunArgs ==
    { [target_langs |-> <<>>, all_dubs |-> a, keep_temp |-> k] : a, k \in BOOLEAN }
    \cup { [target_langs |-> <<"ml">>, all_dubs |-> TRUE, keep_temp |-> FALSE] }
    \cup { [target_langs |-> t, all_dubs |-> FALSE, keep_temp |-> k] :
             t \in TargetLists, k \in BOOLEAN }

\* the languages Whisper detects
DetectedLanguages == {"en", "ml"}

\* the transcripts of a run: empty, a sentence, a Malayalam letter in a short segment
RunSegmentLists ==
    { <<>>, <<SegmentAt(1, <<"a", "b", "a">>)>>, <<SegmentAt(1, <<"u0D2E", "a">>)>> }

\* the duration of the input video
RunDurations == {VideoTicks}

ExtractOutcomes == {"ok", "no_audio"}
DurationOutcomes == {"ok", "unparsable"}
WhisperOutcomes == {"ok", "raise"}

\* tempfile.mkdtemp, extract_audio, get_video_duration
MainExtract ==
    /\ UNCHANGED muxVars
    /\ pc = "main"
    /\ \E extract \in ExtractOutcomes :
          IF extract = "ok"
          THEN /\ temp_dir' = TRUE
               /\ \E probe \in DurationOutcomes, d \in RunDurations :
                     video_duration' = IF probe = "ok" THEN d ELSE 0
               /\ pc' = "transcribe"
               /\ UNCHANGED exit_code
          ELSE /\ temp_dir' = AfterFinally(TRUE, args.keep_temp)
               /\ exit_code' = 1
               /\ pc' = "exited"
               /\ UNCHANGED video_duration
    /\ UNCHANGED <<cacheVars, cdt_ret, target_lang, segments, total_duration, tts_model,
                   seg_i, tts_segments, lastSeg, no_clip, merged, merge_log>>
    /\ UNCHANGED <<args, detected_lang, segments_original, source_languages, target_langs,
                   segments_english, audio_tracks, lang_i, video_files, manifest,
                   whisper_calls>>

trackCallVars == <<cdt_ret, target_lang, segments, total_duration>>
trackLocalVars == <<tts_model, seg_i, tts_segments, lastSeg, no_clip, merged, merge_log>>

\* whisper.load_model and the transcription, the source and the target languages,
\* the original audio track
MainTranscribe ==
    /\ UNCHANGED muxVars
    /\ pc = "transcribe"
    /\ \E whisper \in WhisperOutcomes :
          IF whisper = "ok"
          THEN \E lang \in DetectedLanguages, segs \in RunSegmentLists :
                  /\ detected_lang' = lang
                  /\ segments_original' = segs
                  /\ source_languages' = detect_mixed_languages(lang, segs)
                  /\ target_langs' = TargetLanguages(args, detect_mixed_languages(lang, segs))
                  /\ audio_tracks' = Append(audio_tracks, OriginalTrack(lang))
                  /\ whisper_calls' = [whisper_calls EXCEPT !.transcribe = @ + 1]
                  /\ pc' = "pivot"
                  /\ UNCHANGED <<temp_dir, exit_code>>
          ELSE /\ Finally
               /\ exit_code' = 1
               /\ pc' = "crashed"
               /\ UNCHANGED <<detected_lang, segments_original, source_languages,
                              target_langs, audio_tracks, whisper_calls>>
    /\ UNCHANGED <<cacheVars, trackCallVars, trackLocalVars>>
    /\ UNCHANGED <<args, video_duration, segments_english, lang_i, video_files, manifest>>

\* the segments of whisper_model.transcribe(task='translate'): the text of every
\* segment in English
WhisperTranslate(segs) ==
    [k \in 1..Len(segs) |-> [segs[k] EXCEPT !.text = TranslatedText(@)]]

\* "for seg in segments_english: seg['text'] = clean_translation_text(seg['text'])"
CleanedSegments(segs) ==
    [k \in 1..Len(segs) |-> [segs[k] EXCEPT !.text = clean_translation_text(@)]]

\* the English segments: Whisper's translation for a source that is not English
MainPivot ==
    /\ UNCHANGED muxVars
    /\ pc = "pivot"
    /\ IF detected_lang # "en"
       THEN /\ segments_english' = CleanedSegments(WhisperTranslate(segments_original))
            /\ whisper_calls' = [whisper_calls EXCEPT !.translate = @ + 1]
       ELSE /\ segments_english' = segments_original
            /\ UNCHANGED whisper_calls
    /\ pc' = "english"
    /\ UNCHANGED <<cacheVars, trackCallVars, trackLocalVars>>
    /\ UNCHANGED <<args, temp_dir, video_duration, detected_lang, segments_original,
                   source_languages, target_langs, audio_tracks, lang_i, video_files,
                   manifest, exit_code>>

\* the call create_dub_track(segs, lang, temp_dir, video_duration)
CallCreateDubTrack(segs, lang, ret) ==
    /\ segments' = segs
    /\ target_lang' = lang
    /\ total_duration' = video_duration
    /\ cdt_ret' = ret
    /\ pc' = "cdt_start"

\* "if 'en' in target_langs: en_audio = create_dub_track(segments_english, 'en', ...)"
MainEnglish ==
    /\ UNCHANGED muxVars
    /\ pc = "english"
    /\ lang_i' = 1
    /\ IF "en" \in SeqRange(target_langs)
       THEN CallCreateDubTrack(segments_english, "en", "english_append")
       ELSE /\ pc' = "loop"
            /\ UNCHANGED trackCallVars
    /\ UNCHANGED <<cacheVars, trackLocalVars>>
    /\ UNCHANGED <<args, temp_dir, video_duration, detected_lang, segments_original,
                   source_languages, target_langs, segments_english, audio_tracks,
                   video_files, manifest, exit_code, whisper_calls>>

\* "if en_audio: audio_tracks.append(...)" and "if dub_audio: audio_tracks.append(...)";
\* the locals of the create_dub_track call that returned are gone
MainAppend ==
    /\ UNCHANGED muxVars
    /\ pc \in {"english_append", "loop_append"}
    /\ audio_tracks' = IF merged.exists THEN Append(audio_tracks, DubTrack(target_lang))
                       ELSE audio_tracks
    /\ lang_i' = IF pc = "loop_append" THEN lang_i + 1 ELSE lang_i
    /\ pc' = "loop"
    /\ tts_model' = "None"
    /\ seg_i' = 0
    /\ tts_segments' = <<>>
    /\ no_clip' = {}
    /\ merged' = NoTrack
    /\ merge_log' = <<>>
    /\ UNCHANGED <<cacheVars, trackCallVars, lastSeg>>
    /\ UNCHANGED <<args, temp_dir, video_duration, detected_lang, segments_original,
                   source_languages, target_langs, segments_english, video_files,
                   manifest, exit_code, whisper_calls>>

\* one pass of "for target_lang in target_langs", up to the call of create_dub_track
MainLoop ==
    /\ UNCHANGED muxVars
    /\ pc = "loop"
    /\ lang_i <= Len(target_langs)
    /\ LET tl == target_langs[lang_i]
           base == IF detected_lang # "en" THEN segments_english ELSE segments_original
       IN IF tl = "en" \/ detected_lang = tl
          THEN /\ lang_i' = lang_i + 1
               /\ UNCHANGED <<pc, cacheVars, trackCallVars, whisper_calls>>
          ELSE \E load \in TransLoadOutcomes,
                  outcomes \in [1..Len(base) -> TranslateOutcomes] :
                 LET t == translate_segments(base, "en", tl, translation_models, load,
                                             outcomes, WhisperTranslate(segments_original))
                 IN /\ translation_models' = t.dict
                    /\ IF t.requested THEN NoteTrans(<<"en", tl>>, t.req, load)
                       ELSE UNCHANGED <<trans_loads, failed_loads, lastReq>>
                    /\ whisper_calls' = IF t.whisper
                                        THEN [whisper_calls EXCEPT !.translate = @ + 1]
                                        ELSE whisper_calls
                    /\ CallCreateDubTrack(t.segments, tl, "loop_append")
                    /\ UNCHANGED <<tts_models, tts_loads, lang_i>>
    /\ UNCHANGED trackLocalVars
    /\ UNCHANGED <<args, temp_dir, video_duration, detected_lang, segments_original,
                   source_languages, target_langs, segments_english, audio_tracks,
                   video_files, manifest, exit_code>>

MuxOutcomes == {"ok", "failed"}

\* the stream mapping of the ffmpeg command of track number i (from 1)
TrackMapping(i) == IF i = 1 THEN "copy" ELSE "video_and_dub"

\* the output file of track number i (from 1)
TrackOutput(i, track) == IF i = 1 THEN <<"original">> ELSE <<"dubbed", track.lang>>

\* video_files after the tracks i.. have been muxed
RECURSIVE MuxFrom(_, _, _, _)
MuxFrom(i, tracks, outcomes, files) ==
    IF i > Len(tracks) THEN files
    ELSE MuxFrom(i + 1, tracks, outcomes,
                 IF outcomes[i] = "ok"
                 THEN [files EXCEPT ![tracks[i].lang] = TrackOutput(i, tracks[i])]
                 ELSE files)

\* "for i, track in enumerate(audio_tracks)": one output video per track
MainMux ==
    /\ pc = "loop"
    /\ lang_i > Len(target_langs)
    /\ \E outcomes \in [1..Len(audio_tracks) -> MuxOutcomes] :
          /\ video_files' = MuxFrom(1, audio_tracks, outcomes, [l \in Langs |-> <<>>])
          /\ mux_attempts' = [k \in 1..Len(audio_tracks) |->
                                [lang |-> audio_tracks[k].lang,
                                 output |-> TrackOutput(k, audio_tracks[k]),
                                 mapping |-> TrackMapping(k), outcome |-> outcomes[k]]]
    /\ UNCHANGED output_file
    /\ pc' = "manifest"
    /\ UNCHANGED <<cacheVars, trackCallVars, trackLocalVars>>
    /\ UNCHANGED <<args, temp_dir, video_duration, detected_lang, segments_original,
                   source_languages, target_langs, segments_english, audio_tracks, lang_i,
                   manifest, exit_code, whisper_calls>>

\* the manifest, the finally block and the end of main
MainManifest ==
    /\ UNCHANGED muxVars
    /\ pc = "manifest"
    /\ manifest' = [written |-> TRUE, source_language |-> detected_lang,
                    source_languages |-> source_languages,
                    audio_tracks |-> [k \in 1..Len(audio_tracks) |->
                                        [name |-> audio_tracks[k].name,
                                         language |-> audio_tracks[k].lang]],
                    video_files |-> video_files]
    /\ Finally
    /\ exit_code' = 0
    /\ pc' = "done"
    /\ UNCHANGED <<cacheVars, trackCallVars, trackLocalVars>>
    /\ UNCHANGED <<args, video_duration, detected_lang, segments_original,
                   source_languages, target_langs, segments_english, audio_tracks, lang_i,
                   video_files, whisper_calls>>

(***************************************************************************)
(* Spec: one run of dub_video.py.                                          *)
(***************************************************************************)

InitRun ==
    /\ InitCache /\ InitConcIdle /\ InitSpeedIdle
    /\ pc = "main"
    /\ args \in RunArgs
    /\ temp_dir = FALSE
    /\ video_duration = 0
    /\ detected_lang = "en"
    /\ segments_original = <<>>
    /\ source_languages = {}
    /\ target_langs = <<>>
    /\ segments_english = <<>>
    /\ audio_tracks = <<>>
    /\ lang_i = 0
    /\ video_files = [l \in Langs |-> <<>>]
    /\ manifest = NoManifest
    /\ exit_code = -1
    /\ whisper_calls = [transcribe |-> 0, translate |-> 0]
    /\ mux_attempts = <<>>
    /\ output_file = FALSE
    /\ cdt_ret = "idle"
    /\ target_lang = "en"
    /\ segments = <<>>
    /\ total_duration = 0
    /\ tts_model = "None"
    /\ seg_i = 0
    /\ tts_segments = <<>>
    /\ lastSeg = NoSeg
    /\ no_clip = {}
    /\ merged = NoTrack
    /\ merge_log = <<>>

Next ==
    \/ MainExtract /\ UNCHANGED <<concVars, speedVars>>
    \/ MainTranscribe /\ UNCHANGED <<concVars, speedVars>>
    \/ MainPivot /\ UNCHANGED <<concVars, speedVars>>
    \/ MainEnglish /\ UNCHANGED <<concVars, speedVars>>
    \/ MainLoop /\ UNCHANGED <<concVars, speedVars>>
    \/ CdtStart /\ UNCHANGED <<concVars, speedVars, runVars>>
    \/ CdtSegment /\ UNCHANGED <<concVars, speedVars, runVars>>
    \/ CdtMerge /\ UNCHANGED <<concVars, speedVars, runVars>>
    \/ MainAppend /\ UNCHANGED <<concVars, speedVars>>
    \/ MainMux /\ UNCHANGED <<concVars, speedVars>>
    \/ MainManifest /\ UNCHANGED <<concVars, speedVars>>

Spec == InitRun /\ [][Next]_vars

(***************************************************************************)
(* SpecSpeed: adjust_audio_speed on every raw and target duration of a     *)
(* range, followed by create_dub_track's choice of the clip file.          *)
(***************************************************************************)

MaxRawTicks == 12
MaxTargetTicks == 5

Reconcile ==
    /\ ~sp_out.done
    /\ LET adj == adjust_audio_speed(sp_in.raw, sp_in.target, sp_in.probe, sp_in.tempo)
       IN sp_out' = [done |-> TRUE, adjust |-> adj,
                     clip_dur |-> IF adj.exists THEN adj.dur ELSE sp_in.raw]
    /\ UNCHANGED <<sp_in, cacheVars, concVars, trackVars, runVars>>

InitSpeed ==
    /\ InitCache /\ InitConcIdle /\ InitTrackIdle /\ InitRunIdle
    /\ sp_in \in [raw : 0..MaxRawTicks, target : -1..MaxTargetTicks,
                  probe : ProbeOutcomes, tempo : TempoOutcomes]
    /\ sp_out = NoSpeedOut

NextSpeed == Reconcile

SpecSpeed == InitSpeed /\ [][NextSpeed]_vars

(***************************************************************************)
(* SpecEng: one run of dub_to_english.py (the English-only pipeline).      *)
(***************************************************************************)

\* dub_to_english.py:309
ENG_MIN_CHARS == 3

\* the transcripts Whisper returns with task='translate', before cleaning
EngSegmentLists ==
    { <<>>, <<SegmentAt(1, <<"a", "b", "a">>)>>,
      <<SegmentAt(1, <<"a", "b", "a">>), SegmentAt(2, <<"(", "a", ")", "a", "b">>)>>,
      <<SegmentAt(1, <<"a", "b", "a">>), SegmentAt(2, <<"a", "b", "a">>)>> }

EngArgs == { [NoArgs EXCEPT !.keep_temp = k] : k \in BOOLEAN }

CoquiLoadOutcomes == {"ok", "fail"}

\* generate_tts_coqui, then generate_tts_gtts when it returned False: the value of
\* success, whether the file of the clip exists, and the backends invoked
EngSynthesize(model, coqui, gtts) ==
    IF model = "model" /\ coqui # "raise"
    THEN [success |-> TRUE, file |-> coqui = "ok", attempts |-> << <<"neural", coqui>> >>]
    ELSE [success |-> gtts = "ok", file |-> gtts = "ok",
          attempts |-> (IF model = "model" THEN << <<"neural", coqui>> >> ELSE <<>>)
                       \o << <<"gtts", gtts>> >>]

\* mkdtemp, the load of the Coqui model, extract_audio, get_video_duration
EngExtract ==
    /\ pc = "eng_main"
    /\ \E load \in CoquiLoadOutcomes, extract \in ExtractOutcomes :
          /\ tts_model' = IF load = "ok" THEN "model" ELSE "None"
          /\ IF extract = "ok"
             THEN /\ temp_dir' = TRUE
                  /\ \E probe \in DurationOutcomes, d \in RunDurations :
                        video_duration' = IF probe = "ok" THEN d ELSE 0
                  /\ pc' = "eng_transcribe"
                  /\ UNCHANGED exit_code
             ELSE /\ temp_dir' = AfterFinally(TRUE, args.keep_temp)
                  /\ exit_code' = 1
                  /\ pc' = "exited"
                  /\ UNCHANGED video_duration
    /\ UNCHANGED <<cacheVars, cdt_ret, target_lang, segments, total_duration, seg_i,
                   tts_segments, lastSeg, no_clip, merged, merge_log>>
    /\ UNCHANGED <<args, detected_lang, segments_original, source_languages, target_langs,
                   segments_english, audio_tracks, lang_i, video_files, manifest,
                   whisper_calls, muxVars>>

\* whisper.load_model, the transcription with task='translate', the cleaning
EngTranscribe ==
    /\ pc = "eng_transcribe"
    /\ \E whisper \in WhisperOutcomes :
          IF whisper = "ok"
          THEN \E lang \in DetectedLanguages, segs \in EngSegmentLists :
                  /\ detected_lang' = lang
                  /\ segments' = CleanedSegments(segs)
                  /\ whisper_calls' = [whisper_calls EXCEPT !.translate = @ + 1]
                  /\ total_duration' = video_duration
                  /\ seg_i' = 1
                  /\ pc' = IF segs = <<>> THEN "eng_merge" ELSE "eng_segment"
                  /\ UNCHANGED <<temp_dir, exit_code>>
          ELSE /\ Finally
               /\ exit_code' = 1
               /\ pc' = "crashed"
               /\ UNCHANGED <<detected_lang, segments, whisper_calls, total_duration, seg_i>>
    /\ UNCHANGED <<cacheVars, cdt_ret, target_lang, tts_model, tts_segments, lastSeg,
                   no_clip, merged, merge_log>>
    /\ UNCHANGED <<args, video_duration, segments_original, source_languages, target_langs,
                   segments_english, audio_tracks, lang_i, video_files, manifest, muxVars>>

\* one pass of "for i, seg in enumerate(segments)" of dub_to_english.py
EngSegment ==
    /\ pc = "eng_segment"
    /\ LET seg == segments[seg_i]
           base == [NoSeg EXCEPT !.index = seg_i - 1, !.text = seg.text]
       IN IF seg.text = <<>> \/ Len(seg.text) < ENG_MIN_CHARS
          THEN /\ lastSeg' = [base EXCEPT !.stage = "skipped_clean"]
               /\ UNCHANGED <<tts_segments, no_clip>>
          ELSE \E coqui \in NeuralOutcomes, gtts \in GttsOutcomes :
                 LET tts == EngSynthesize(tts_model, coqui, gtts)
                 IN IF tts.success /\ tts.file
                    THEN \E raw \in RawDurations, probe \in ProbeOutcomes,
                            tempo \in TempoOutcomes :
                           LET adj == adjust_audio_speed(raw, seg.end - seg.start,
                                                         probe, tempo)
                               clip == [index |-> seg_i - 1, start |-> seg.start,
                                        end |-> seg.end,
                                        dur |-> ClipDuration(adj, raw),
                                        backend |-> ClipBackend(tts), file |-> TRUE]
                           IN /\ tts_segments' = Append(tts_segments, clip)
                              /\ lastSeg' = [base EXCEPT !.stage = "synth", !.tts = tts,
                                               !.raw = raw, !.target = seg.end - seg.start,
                                               !.adjust = adj, !.clip = TRUE]
                              /\ UNCHANGED no_clip
                    ELSE /\ lastSeg' = [base EXCEPT !.stage = "synth", !.tts = tts]
                         /\ no_clip' = no_clip \cup {seg_i - 1}
                         /\ UNCHANGED tts_segments
    /\ seg_i' = seg_i + 1
    /\ pc' = IF seg_i = Len(segments) THEN "eng_merge" ELSE "eng_segment"
    /\ UNCHANGED <<cacheVars, cdt_ret, target_lang, segments, total_duration, tts_model,
                   merged, merge_log, runVars>>

\* "[4/5] Merging TTS audio track": merge_with_timing, merge_with_ffmpeg when it
\* returned False, or the silent track
EngMerge ==
    /\ pc = "eng_merge"
    /\ IF tts_segments # <<>>
       THEN \E overlay \in OverlayOutcomes, concat \in ConcatOutcomes,
               again \in ConcatOutcomes, gone \in SUBSET (1..Len(tts_segments)) :
               LET clips == ClipFiles(tts_segments, gone)
                   first == merge_with_timing(clips, total_duration, overlay, concat)
               IN /\ tts_segments' = clips
                  /\ IF first.exists
                     THEN /\ merged' = first
                          /\ merge_log' = MergeLog(overlay, ConcatResult(clips, concat))
                     ELSE /\ merged' = merge_with_ffmpeg(clips, total_duration, again)
                          /\ merge_log' = MergeLog(overlay, ConcatResult(clips, concat))
                                             \o << <<"concat", ConcatResult(clips, again)>> >>
       ELSE /\ merged' = SilentTrack(total_duration)
            /\ merge_log' = << <<"silent", "ok">> >>
            /\ UNCHANGED tts_segments
    /\ lastSeg' = NoSeg
    /\ pc' = "eng_mux"
    /\ UNCHANGED <<cacheVars, cdt_ret, target_lang, segments, total_duration, tts_model,
                   seg_i, no_clip, runVars>>

\* the ffmpeg runs of "[5/5] Creating dubbed video": both audio tracks, then the
\* dub alone
EngMuxAttempts(dual, single) ==
    LET run(mapping, outcome) == [lang |-> "en", output |-> <<"dubbed", "en">>,
                                  mapping |-> mapping, outcome |-> outcome]
    IN IF dual = "ok" THEN <<run("original_and_dub", dual)>>
       ELSE <<run("original_and_dub", dual), run("video_and_dub", single)>>

\* the final video, the exit when it is missing, the finally block
EngMux ==
    /\ pc = "eng_mux"
    /\ \E dual \in MuxOutcomes, single \in MuxOutcomes :
          LET attempts == IF merged.exists THEN EngMuxAttempts(dual, single) ELSE <<>>
              written == \E k \in 1..Len(attempts) : attempts[k].outcome = "ok"
          IN /\ mux_attempts' = attempts
             /\ output_file' = written
             /\ exit_code' = IF written THEN 0 ELSE 1
             /\ pc' = IF written THEN "done" ELSE "exited_no_output"
    /\ Finally
    /\ UNCHANGED <<cacheVars, trackCallVars, trackLocalVars>>
    /\ UNCHANGED <<args, video_duration, detected_lang, segments_original,
                   source_languages, target_langs, segments_english, audio_tracks, lang_i,
                   video_files, manifest, whisper_calls>>

InitEng ==
    /\ InitCache /\ InitConcIdle /\ InitSpeedIdle
    /\ pc = "eng_main"
    /\ args \in EngArgs
    /\ temp_dir = FALSE
    /\ video_duration = 0
    /\ detected_lang = "en"
    /\ segments_original = <<>>
    /\ source_languages = {}
    /\ target_langs = <<>>
    /\ segments_english = <<>>
    /\ audio_tracks = <<>>
    /\ lang_i = 0
    /\ video_files = [l \in Langs |-> <<>>]
    /\ manifest = NoManifest
    /\ exit_code = -1
    /\ whisper_calls = [transcribe |-> 0, translate |-> 0]
    /\ mux_attempts = <<>>
    /\ output_file = FALSE
    /\ cdt_ret = "idle"
    /\ target_lang = "en"
    /\ segments = <<>>
    /\ total_duration = 0
    /\ tts_model = "None"
    /\ seg_i = 0
    /\ tts_segments = <<>>
    /\ lastSeg = NoSeg
    /\ no_clip = {}
    /\ merged = NoTrack
    /\ merge_log = <<>>

NextEng ==
    \/ EngExtract /\ UNCHANGED <<concVars, speedVars>>
    \/ EngTranscribe /\ UNCHANGED <<concVars, speedVars>>
    \/ EngSegment /\ UNCHANGED <<concVars, speedVars>>
    \/ EngMerge /\ UNCHANGED <<concVars, speedVars>>
    \/ EngMux /\ UNCHANGED <<concVars, speedVars>>

SpecEng == InitEng /\ [][NextEng]_vars

(***************************************************************************)
(* SpecClean: clean_translation_text on the segments of a translation, as  *)
(* main applies it to every segment after Whisper's task='translate'.      *)
(***************************************************************************)

MaxPieces == 5

\* the pieces a text is made of: the two halves of a language tag, a letter, the
\* delimiters of the annotations, the music note, a space
TextPieces ==
    { <<"<", "|">>, <<"|", ">">>, <<"a">>, <<"[">>, <<"]">>, <<"(">>, <<")">>, <<"~">>,
      <<" ">> }

RECURSIVE Flatten(_)
Flatten(pieces) == IF pieces = <<>> THEN <<>> ELSE Head(pieces) \o Flatten(Tail(pieces))

\* the texts of the segments Whisper returns, of up to max pieces, the empty text
\* included
RawTexts(max) == UNION { { Flatten(f) : f \in [1..n -> TextPieces] } : n \in 0..max }

\* "for seg in segments_english: seg['text'] = clean_translation_text(seg['text'])"
CleanSegments ==
    /\ pc = "clean"
    /\ segments_english' = CleanedSegments(segments)
    /\ pc' = "cleaned"
    /\ UNCHANGED <<cacheVars, trackCallVars, trackLocalVars>>
    /\ UNCHANGED <<args, temp_dir, video_duration, detected_lang, segments_original,
                   source_languages, target_langs, audio_tracks, lang_i, video_files,
                   manifest, exit_code, whisper_calls, muxVars>>

InitClean ==
    /\ InitCache /\ InitConcIdle /\ InitSpeedIdle
    /\ pc = "clean"
    /\ segments \in { <<SegmentAt(1, t)>> : t \in RawTexts(MaxPieces) }
    /\ args = NoArgs
    /\ temp_dir = FALSE
    /\ video_duration = 0
    /\ detected_lang = "en"
    /\ segments_original = <<>>
    /\ source_languages = {}
    /\ target_langs = <<>>
    /\ segments_english = <<>>
    /\ audio_tracks = <<>>
    /\ lang_i = 0
    /\ video_files = [l \in Langs |-> <<>>]
    /\ manifest = NoManifest
    /\ exit_code = -1
    /\ whisper_calls = [transcribe |-> 0, translate |-> 0]
    /\ mux_attempts = <<>>
    /\ output_file = FALSE
    /\ cdt_ret = "idle"
    /\ target_lang = "en"
    /\ total_duration = 0
    /\ tts_model = "None"
    /\ seg_i = 0
    /\ tts_segments = <<>>
    /\ lastSeg = NoSeg
    /\ no_clip = {}
    /\ merged = NoTrack
    /\ merge_log = <<>>

NextClean == CleanSegments /\ UNCHANGED <<concVars, speedVars>>

SpecClean == InitClean /\ [][NextClean]_vars

(***************************************************************************)
(* SpecTranslate: one call of translate_segments with a Whisper model and  *)
(* the audio, in a fresh process, for every language pair.                 *)
(***************************************************************************)

\* the texts of the segments handed to translate_segments: a sentence, a blank text,
\* the empty text
TranslateTexts == { <<"a", "b", "a">>, <<" ">>, <<>> }

\* the segments of whisper_model.transcribe(audio, task='translate'): Whisper cuts
\* the audio anew, into no, one or two segments
PivotResults ==
    { <<>>, <<SegmentAt(1, <<"b", "a", "b">>)>>,
      <<[start |-> 0, end |-> 2 * SlotTicks, text |-> <<"b", "a", "b">>]>>,
      <<SegmentAt(1, <<"b", "a", "b">>), SegmentAt(2, <<"b", "a", "b">>)>> }

\* translated = translate_segments(base_segments, src_lang, tgt_lang, whisper_model,
\* audio_path)
Translate ==
    /\ pc = "translate"
    /\ \E load \in TransLoadOutcomes, pivot \in PivotResults,
          outcomes \in [1..Len(segments_original) -> TranslateOutcomes] :
          LET t == translate_segments(segments_original, detected_lang, target_lang,
                                      translation_models, load, outcomes, pivot)
          IN /\ segments' = t.segments
             /\ translation_models' = t.dict
             /\ IF t.requested THEN NoteTrans(<<"en", target_lang>>, t.req, load)
                ELSE UNCHANGED <<trans_loads, failed_loads, lastReq>>
             /\ whisper_calls' = IF t.whisper
                                 THEN [whisper_calls EXCEPT !.translate = @ + 1]
                                 ELSE whisper_calls
    /\ pc' = "translated"
    /\ UNCHANGED <<tts_models, tts_loads, cdt_ret, target_lang, total_duration,
                   trackLocalVars>>
    /\ UNCHANGED <<args, temp_dir, video_duration, detected_lang, segments_original,
                   source_languages, target_langs, segments_english, audio_tracks, lang_i,
                   video_files, manifest, exit_code, muxVars>>

InitTranslate ==
    /\ InitCache /\ InitConcIdle /\ InitSpeedIdle
    /\ pc = "translate"
    /\ segments_original \in SegmentLists(TranslateTexts)
    /\ detected_lang \in DetectedLanguages
    /\ target_lang \in RequestLanguages
    /\ segments = <<>>
    /\ args = NoArgs
    /\ temp_dir = FALSE
    /\ video_duration = 0
    /\ source_languages = {}
    /\ target_langs = <<>>
    /\ segments_english = <<>>
    /\ audio_tracks = <<>>
    /\ lang_i = 0
    /\ video_files = [l \in Langs |-> <<>>]
    /\ manifest = NoManifest
    /\ exit_code = -1
    /\ whisper_calls = [transcribe |-> 0, translate |-> 0]
    /\ mux_attempts = <<>>
    /\ output_file = FALSE
    /\ cdt_ret = "idle"
    /\ total_duration = 0
    /\ tts_model = "None"
    /\ seg_i = 0
    /\ tts_segments = <<>>
    /\ lastSeg = NoSeg
    /\ no_clip = {}
    /\ merged = NoTrack
    /\ merge_log = <<>>

NextTranslate == Translate /\ UNCHANGED <<concVars, speedVars>>

SpecTranslate == InitTranslate /\ [][NextTranslate]_vars

(***************************************************************************)
(* Properties of the model caches.                                         *)
(***************************************************************************)

LastReqValue ==
    IF lastReq.kind = "tts" THEN DictGet(tts_models, <<lastReq.key[1], "tts">>)
    ELSE DictGet(translation_models, lastReq.key)

\* C1: in a single-threaded run at most one load attempt is ever started for a
\* cache key, whether that attempt succeeded or failed, and a request for a key
\* that is already in the cache starts no load and returns the cached value.
C1_AtMostOneLoadPerKey ==
    /\ \A l \in Langs : tts_loads[l] <= 1
    /\ \A p \in Pairs : trans_loads[p] <= 1
    /\ (lastReq.kind # "none" /\ lastReq.hit) =>
          (~lastReq.attempted /\ lastReq.result = LastReqValue)

\* a TTS key whose first load failed has been requested again
C1_Witness ==
    /\ <<"tts", "ml">> \in failed_loads
    /\ lastReq.kind = "tts" /\ lastReq.key = <<"ml">> /\ lastReq.hit
    /\ tts_loads["ml"] = 1

FailedValue(f) ==
    IF f[1] = "tts" THEN tts_models[<<f[2], "tts">>] ELSE translation_models[f[2]]

\* C7: after a failed load the key holds the stored value None, which is not the
\* state of a key never requested (absent from the dictionary), and a later
\* request for that key returns None without loading.
C7_FailedLoadIsCached ==
    \A f \in failed_loads :
        /\ FailedValue(f) = "None"
        /\ FailedValue(f) # "absent"
        /\ (lastReq.kind = f[1] /\ lastReq.hit
              /\ lastReq.key = (IF f[1] = "tts" THEN <<f[2]>> ELSE f[2])) =>
               (lastReq.result = "None" /\ ~lastReq.attempted)

\* a translation pair whose load failed has been requested again
C7_Witness ==
    /\ <<"trans", <<"en", "ml">> >> \in failed_loads
    /\ lastReq.kind = "trans" /\ lastReq.key = <<"en", "ml">> /\ lastReq.hit

\* C6: when two callers have concurrently requested the same key, one load is
\* started for it and both callers receive the same result.
C6_ConcurrentSingleFlight ==
    \A t1, t2 \in Callers :
        (t1 # t2 /\ cpc[t1] # "idle" /\ cpc[t2] # "idle" /\ creq[t1] = creq[t2]) =>
            /\ ReqLoads(creq[t1]) <= 1
            /\ (cpc[t1] = "done" /\ cpc[t2] = "done") => cres[t1] = cres[t2]

(***************************************************************************)
(* Properties of the reconciler.                                           *)
(***************************************************************************)

SpeedRatio == <<sp_in.raw, sp_in.target>>

\* a call with positive durations whose probe and tempo commands have worked
ReconciledOk ==
    /\ sp_out.done /\ sp_in.raw > 0 /\ sp_in.target > 0
    /\ sp_in.probe = "ok" /\ sp_in.tempo = "ok"

RatioInRange == FracLeq(SPEED_MIN, SpeedRatio) /\ FracLeq(SpeedRatio, SPEED_MAX)

\* C3 as claimed: with positive durations, a ratio raw/target in [0.5, 2.5] gives a
\* clip of the target duration, and a ratio outside it gives the clip unscaled.
C3_Original ==
    ReconciledOk =>
        IF RatioInRange THEN sp_out.clip_dur = sp_in.target
        ELSE sp_out.clip_dur = sp_in.raw

\* C3 as amended: with positive durations and working probe and tempo commands, a
\* ratio in [0.5, 2.5] gives a clip of the target duration; a ratio above 2.5 gives
\* the clip played at 2.5 times its speed (raw / 2.5) and a ratio below 0.5 the clip
\* played at half its speed (raw / 0.5), to the tick.
C3_ClampedScaling ==
    ReconciledOk =>
        /\ RatioInRange => sp_out.clip_dur = sp_in.target
        /\ FracLess(SPEED_MAX, SpeedRatio) =>
              /\ 5 * sp_out.clip_dur <= 2 * sp_in.raw
              /\ 2 * sp_in.raw < 5 * (sp_out.clip_dur + 1)
              /\ sp_out.clip_dur >= sp_in.target
              /\ sp_out.clip_dur < sp_in.raw
        /\ FracLess(SpeedRatio, SPEED_MIN) =>
              /\ sp_out.clip_dur = 2 * sp_in.raw
              /\ sp_out.clip_dur < sp_in.target
              /\ sp_out.clip_dur > sp_in.raw

\* a clip more than 2.5 times as long as its slot has been reconciled
C3_Witness == ReconciledOk /\ FracLess(SPEED_MAX, SpeedRatio) /\ sp_in.target > 1

(***************************************************************************)
(* Properties of create_dub_track.                                         *)
(***************************************************************************)

TrackReturned == pc = "cdt_done"

C4_FallbackChain ==
    lastSeg.stage = "synth" =>
        LET a == lastSeg.tts.attempts
        IN /\ a # <<>>
           /\ UsesNeural(target_lang, tts_model, tts_models) => a[1][1] = "neural"
           /\ \A k \in 1..Len(a) :
                 /\ (a[k][1] = "neural" /\ a[k][2] # "ok") =>
                        (k < Len(a) /\ a[k + 1][1] = "gtts")
                 /\ a[k][2] = "ok" => (k = Len(a) /\ lastSeg.clip)

\* C8: a synthesis backend is invoked for a segment only if its cleaned text is
\* non-empty and at least 3 characters long.
C8_MinCleanedLength ==
    lastSeg.tts.attempts # <<>> =>
        (lastSeg.text # <<>> /\ Len(lastSeg.text) >= MIN_SEGMENT_CHARS)

SlotTicksOf(i) == { t \in 1..Len(merged.timeline) :
                      segments[i + 1].start < t /\ t <= segments[i + 1].end }

\* C9: when every backend has failed for a segment, the segment has no clip, the
\* track of the language is still produced with the full total duration, and the
\* track is silent over the slot of that segment.
C9_FailedSegmentSilentSlot ==
    (TrackReturned /\ no_clip # {}) =>
        /\ \A k \in 1..Len(tts_segments) : tts_segments[k].index \notin no_clip
        /\ merged.exists
        /\ merged.dur = total_duration
        /\ \A i \in no_clip : \A t \in SlotTicksOf(i) : merged.timeline[t] = {}

\* the languages of the manifest's audio tracks
ManifestLanguages ==
    { manifest.audio_tracks[k].language : k \in 1..Len(manifest.audio_tracks) }

\* a target language with a translation route from the detected language: the
\* detected language itself, English (Whisper's translation), or a language with a
\* model from English in lang_map
HasRoute(lang) == lang \in {detected_lang, "en"} \/ <<"en", lang>> \in LangMapNamed

\* C5: when the run has ended with its manifest, a requested target language
\* without a translation route from the detected language has no track in the
\* manifest, and every requested target language with a route has one.
C5_NoRouteNoTrack ==
    pc = "done" =>
        /\ manifest.written
        /\ \A k \in 1..Len(target_langs) :
              HasRoute(target_langs[k]) <=> target_langs[k] \in ManifestLanguages

\* the languages of the tracks produced
TrackLanguages == { audio_tracks[k].lang : k \in 1..Len(audio_tracks) }

\* C10: a run ends either with the manifest written and a track for every
\* requested target language, or aborted by a failure of extraction or detection
\* without a manifest; the manifest is never written while a requested target
\* language has no track.
C10_TerminalStates ==
    /\ pc = "done" =>
          /\ manifest.written
          /\ \A k \in 1..Len(target_langs) : target_langs[k] \in TrackLanguages
    /\ pc \in {"exited", "crashed"} => (~manifest.written /\ audio_tracks = <<>>)
    /\ manifest.written => pc = "done"

(***************************************************************************)
(* Properties of the run: failures and termination.                        *)
(***************************************************************************)

\* get_video_duration returned 0: the duration of the video could not be obtained
DurationUnknown == video_duration = 0

\* C11: when the source audio cannot be extracted or the duration of the video
\* cannot be obtained, the run aborts with a non-zero exit status before any
\* transcription, synthesis or composition, and writes no manifest.
C11_AbortBeforeTranscription ==
    /\ pc = "exited" =>
          /\ exit_code > 0
          /\ whisper_calls.transcribe = 0 /\ audio_tracks = <<>>
          /\ ~manifest.written
    /\ (pc # "main" /\ DurationUnknown) =>
          /\ whisper_calls.transcribe = 0 /\ audio_tracks = <<>>
          /\ ~manifest.written
          /\ pc = "done" => exit_code > 0

\* the run of dub_video.py has ended
RunEnded == pc \in {"done", "exited", "crashed"}

InManifest(track) ==
    /\ \E k \in 1..Len(manifest.audio_tracks) :
          /\ manifest.audio_tracks[k].language = track.lang
          /\ manifest.audio_tracks[k].name = track.name
    /\ manifest.video_files[track.lang] # <<>>

\* C13: the manifest is written only at the end of the run, after every target
\* language has been attempted and the muxing has been attempted, a run that
\* reaches its end has written it, and every language with a track is in it with
\* its display name, its language code and the path of its output file.
C13_ManifestAfterAllLanguages ==
    /\ manifest.written => (pc = "done" /\ lang_i > Len(target_langs))
    /\ pc = "done" =>
          /\ manifest.written
          /\ \A k \in 1..Len(audio_tracks) : InManifest(audio_tracks[k])

\* the run is past the transcription
Transcribed == pc \notin {"main", "transcribe", "exited", "crashed"}

\* C14: in a run Whisper transcribes once and translates into English at most
\* once (once for a source that is not English, never for an English source),
\* whatever the number of target languages; every target of the language loop is
\* translated from the stored English segments, segment by segment, and
\* translate_segments makes no Whisper call.
C14_AsrOncePivotOnce ==
    /\ whisper_calls.transcribe <= 1
    /\ whisper_calls.translate <= 1
    /\ Transcribed => whisper_calls.transcribe = 1
    /\ (Transcribed /\ pc # "pivot") =>
          whisper_calls.translate = (IF detected_lang # "en" THEN 1 ELSE 0)
    /\ (pc = "cdt_start" /\ cdt_ret = "loop_append") =>
          /\ Len(segments) = Len(segments_english)
          /\ \A k \in 1..Len(segments) :
                segments[k] \in { TranslateOne(segments_english[k], o) : o \in TranslateOutcomes }

\* a run for a Malayalam video that has made the Hindi and the Tamil track
C14_Witness ==
    /\ pc = "done" /\ detected_lang = "ml" /\ segments_original # <<>>
    /\ {"hi", "ta"} \subseteq TrackLanguages

(***************************************************************************)
(* Properties of the reconciler: the speed and its stages.                 *)
(***************************************************************************)

\* the product of the factors of the stages
RECURSIVE StageProduct(_)
StageProduct(stages) ==
    IF stages = <<>> THEN <<1, 1>>
    ELSE LET r == StageProduct(Tail(stages))
         IN <<Head(stages)[1] * r[1], Head(stages)[2] * r[2]>>

\* a call with positive durations whose probe has given the duration of the clip
SpeedComputed ==
    sp_out.done /\ sp_in.raw > 0 /\ sp_in.target > 0 /\ sp_in.probe = "ok"

AppliedSpeed == StageProduct(sp_out.adjust.stages)

\* C16: with positive raw and target durations the speed applied is raw / target
\* clamped into [0.5, 2.5]: never below 0.5, never above 2.5, the ratio itself
\* when the ratio is in the range, and the nearer limit when it is not.
C16_SpeedIsClampedRatio ==
    SpeedComputed =>
        /\ sp_out.adjust.stages # <<>>
        /\ FracLeq(SPEED_MIN, AppliedSpeed) /\ FracLeq(AppliedSpeed, SPEED_MAX)
        /\ RatioInRange => FracEq(AppliedSpeed, SpeedRatio)
        /\ FracLess(SpeedRatio, SPEED_MIN) => FracEq(AppliedSpeed, SPEED_MIN)
        /\ FracLess(SPEED_MAX, SpeedRatio) => FracEq(AppliedSpeed, SPEED_MAX)

\* a clip less than half as long as its slot has been reconciled
C16_Witness == SpeedComputed /\ FracLess(SpeedRatio, SPEED_MIN) /\ sp_in.tempo = "ok"

\* C17: a speed above 2.0 is applied in exactly two stages, speed / 2 and then
\* 2.0, any other speed in exactly one stage; the product of the stages is the
\* clamped speed and every stage factor is in [0.5, 2.0].
C17_TempoStages ==
    SpeedComputed =>
        LET stages == sp_out.adjust.stages
        IN /\ Len(stages) \in {1, 2}
           /\ Len(stages) = 2 <=> FracLess(SINGLE_STAGE_MAX, AppliedSpeed)
           /\ Len(stages) = 2 <=> sp_in.raw > 2 * sp_in.target
           /\ Len(stages) = 2 =>
                 /\ FracEq(stages[2], SINGLE_STAGE_MAX)
                 /\ FracEq(<<2 * stages[1][1], stages[1][2]>>, AppliedSpeed)
           /\ \A k \in 1..Len(stages) :
                 FracLeq(SPEED_MIN, stages[k]) /\ FracLeq(stages[k], SINGLE_STAGE_MAX)
           /\ FracEq(AppliedSpeed,
                     IF FracLess(SpeedRatio, SPEED_MIN) THEN SPEED_MIN
                     ELSE IF FracLess(SPEED_MAX, SpeedRatio) THEN SPEED_MAX
                     ELSE SpeedRatio)

\* a speed between 2.0 and 2.5 has been applied in two stages
C17_Witness ==
    /\ SpeedComputed /\ Len(sp_out.adjust.stages) = 2
    /\ FracLess(SpeedRatio, SPEED_MAX) /\ sp_in.tempo = "ok"

\* C18: with a raw or a target duration that is zero or negative the output is an
\* unmodified copy of the clip and no tempo stage is applied.
C18_NonPositiveIsCopied ==
    (sp_out.done /\ (sp_in.raw <= 0 \/ sp_in.target <= 0)) =>
        /\ sp_out.adjust.copied /\ sp_out.adjust.exists
        /\ sp_out.adjust.stages = <<>>
        /\ sp_out.adjust.dur = sp_in.raw
        /\ sp_out.clip_dur = sp_in.raw

\* a clip of positive duration has been reconciled for a slot of negative length
C18_Witness ==
    sp_out.done /\ sp_in.raw > 0 /\ sp_in.target < 0 /\ sp_in.probe = "ok"

(***************************************************************************)
(* Properties of create_dub_track: reconciliation and composition failures. *)
(***************************************************************************)

\* the last segment was synthesized: a backend returned success and wrote the file
Synthesized == lastSeg.stage = "synth" /\ lastSeg.tts.success /\ lastSeg.tts.file

\* the reconciliation of the last clip failed: the probe was unparsable (the clip
\* was copied) or the tempo command wrote no output
ReconciliationFailed == lastSeg.adjust.copied \/ ~lastSeg.adjust.exists

OverlayFailed ==
    /\ TrackReturned /\ merge_log # <<>>
    /\ merge_log[1][1] = "overlay" /\ merge_log[1][2] # "ok"

\* C20: when the overlay merge fails for a language, because pydub is missing or
\* because building or exporting the overlaid track raises, the concatenation
\* strategy is run instead, and when it works the language has a track of the
\* total duration that is marked as made by the fallback.
C20_OverlayFailureFallsBack ==
    OverlayFailed =>
        /\ Len(merge_log) = 2 /\ merge_log[2][1] = "concat"
        /\ merge_log[2][2] = "ok" =>
              (merged.exists /\ merged.mode = "concat" /\ merged.dur = total_duration)

\* C12: a run ends with a non-zero exit status only when the source audio could not
\* be extracted (or the speech recognizer itself raised); a run that got past the
\* transcription absorbs the failures of synthesis, reconciliation, composition and
\* muxing and ends with exit status zero.
C12_OnlyAudioFailureIsFatal ==
    /\ exit_code > 0 => pc \in {"exited", "crashed"}
    /\ pc = "exited" => whisper_calls.translate = 0 /\ mux_attempts = <<>>

\* the ffmpeg run k, which muxes a dubbed track, failed and no run with another
\* stream mapping was made for the same output file
GaveUpAfterOneMapping(k) ==
    /\ mux_attempts[k].outcome = "failed"
    /\ mux_attempts[k].mapping # "copy"
    /\ \A j \in 1..Len(mux_attempts) :
          j # k => \/ mux_attempts[j].output # mux_attempts[k].output
                   \/ mux_attempts[j].mapping = mux_attempts[k].mapping

\* C21: when the ffmpeg run that assembles the output video of a language fails, the
\* run tries at least one other, simpler stream mapping for that output file before it
\* gives up on the file.
C21_MuxFallbackMapping ==
    \A k \in 1..Len(mux_attempts) : ~GaveUpAfterOneMapping(k)

\* create_dub_track is being called for a target language of the loop where neither
\* the detected source language nor the target is English and the two differ
PivotPairCall ==
    /\ pc = "cdt_start" /\ cdt_ret = "loop_append"
    /\ detected_lang # "en" /\ target_lang # "en" /\ target_lang # detected_lang

\* C22: for a source and a target language that both differ from English and from
\* each other, the text handed to the synthesis went through exactly one intermediate
\* language (one Whisper translation to English, then one request for the English to
\* target model, no further hop), and this route is taken only when the English to
\* target model is registered in lang_map; otherwise there is no route and no track is
\* composed for the pair.
C22_SinglePivotHop ==
    PivotPairCall =>
        /\ whisper_calls.translate = 1
        /\ lastReq.kind = "trans" /\ lastReq.key = <<"en", target_lang>>
        /\ <<"en", target_lang>> \in LangMapNamed

\* translate_segments has returned to the language loop for the pair (en, target_lang)
\* and its segments are being handed to create_dub_track
RoutedCall == pc = "cdt_start" /\ cdt_ret = "loop_append" /\ lastReq.kind = "trans"

\* C23: the route translate_segments takes for a language pair is fixed by the pair and
\* the static table lang_map alone, so every run takes the same one: the model route
\* exactly when lang_map names a model for the pair, whatever the outcome of the load of
\* that model at the time of use.
C23_RouteFromTableAlone ==
    RoutedCall => (lastReq.result = "model" <=> lastReq.key \in LangMapNamed)

\* create_dub_track has returned a track composed by the overlay of merge_with_timing
OverlayReturned == TrackReturned /\ merged.exists /\ merged.mode = "overlay"

\* C24: on a track composed by overlay, the clips are overlaid in increasing order of
\* the start time of their segments, each at the start of its own segment in whole
\* milliseconds (int(start * 1000)), for every list of segments in the order the
\* recognizer returns them; the order is fixed by the list of clips.
C24_OverlayInStartOrder ==
    OverlayReturned =>
        LET steps == OverlaySteps(tts_segments)
        IN /\ \A k \in 1..Len(steps) :
                 steps[k].position = IntMs(segments[steps[k].index + 1].start)
           /\ \A j, k \in 1..Len(steps) :
                 j < k => /\ steps[j].index < steps[k].index
                          /\ segments[steps[j].index + 1].start
                                < segments[steps[k].index + 1].start

\* an overlay track of two clips
C24_Witness == OverlayReturned /\ Len(UsableClips(tts_segments)) >= 2

\* the track is silent over its whole length
SilentThroughout(track) == \A t \in 1..Len(track.timeline) : track.timeline[t] = {}

\* C25: when a language has no usable clip (the list of clips is empty, or the file of
\* every clip is missing or unreadable when the merge runs), create_dub_track still
\* returns a track, silent over its whole length and as long as the video (on the
\* overlay path: the length in whole milliseconds); and when the overlay runs, a clip
\* whose file is missing is skipped while every other clip is still overlaid at its
\* position.
C25_NoUsableClipSilentTrack ==
    TrackReturned =>
        /\ UsableClips(tts_segments) = <<>> =>
              /\ merged.exists
              /\ SilentThroughout(merged)
              /\ merged.dur = IF merged.mode = "overlay"
                              THEN SilentBaseTicks(total_duration) ELSE total_duration
        /\ (merge_log = << <<"overlay", "ok">> >>) =>
              /\ merged.exists
              /\ \A k \in 1..Len(tts_segments) : \A t \in 1..merged.dur :
                    tts_segments[k].index \in merged.timeline[t]
                       <=> (tts_segments[k].file /\ ClipSounds(tts_segments[k], t - 1))

\* C26: all the clips of one track come from the same synthesis backend (the language's
\* cached model, or gTTS): no two clips of a track are synthesized by different
\* backends.
C26_OneBackendPerTrack ==
    \A j, k \in 1..Len(tts_segments) : tts_segments[j].backend = tts_segments[k].backend

\* all-dubs mode: --all_dubs given, or no --target_langs given
AllDubsMode == args.all_dubs \/ args.target_langs = <<>>

\* the languages detected in the source: the primary one and those of the scripts
\* found in the text of the segments
DetectedSources ==
    {detected_lang}
    \cup { l \in {"ml", "hi", "ta"} :
             \E k \in 1..Len(segments_original) : \E n \in 1..Len(segments_original[k].text) :
                ScriptLanguage(segments_original[k].text[n]) = l }

\* the languages whose synthesis model create_dub_track has asked for
DubAttempted == { l \in Langs : InDict(tts_models, <<l, "tts">>) }

\* C27: in all-dubs mode the target languages are exactly the supported languages
\* en, ml, hi, ta that are not among the detected source languages, each once; when
\* the run has ended, a dub was attempted for each of them and for no detected source
\* language.
C27_AllDubsTargets ==
    (Transcribed /\ AllDubsMode) =>
        /\ SeqRange(target_langs) = SupportedSet \ DetectedSources
        /\ \A j, k \in 1..Len(target_langs) : target_langs[j] = target_langs[k] => j = k
        /\ DubAttempted \subseteq SeqRange(target_langs)
        /\ pc = "done" => DubAttempted = SeqRange(target_langs)

\* an all-dubs run on a video with English speech and Malayalam text has ended
C27_Witness ==
    /\ pc = "done" /\ AllDubsMode
    /\ detected_lang = "en" /\ "ml" \in DetectedSources
    /\ DubAttempted = {"hi", "ta"}

\* does s hold a language tag <|xx|>, a span from open to close?
HasTag(s) == \E j \in 1..Len(s) : TagLength(SubSeq(s, j, Len(s))) > 0
HasSpan(s, open, close) == \E i, j \in 1..Len(s) : i < j /\ s[i] = open /\ s[j] = close

\* the text of the segment before and after the cleaning
RawText == segments[1].text
CleanText == segments_english[1].text

\* C28: the text clean_translation_text returns holds no language tag <|xx|>, no
\* bracketed [...] or (...) annotation and no span between two music notes, for every
\* input text; the empty text gives the empty text.
C28_NoMetaToken ==
    pc = "cleaned" =>
        /\ ~HasTag(CleanText)
        /\ ~HasSpan(CleanText, "[", "]")
        /\ ~HasSpan(CleanText, "(", ")")
        /\ ~HasSpan(CleanText, "~", "~")
        /\ RawText = <<>> => CleanText = <<>>

\* the languages with an entry in the video_files of the manifest
ManifestVideoKeys == { l \in Langs : manifest.video_files[l] # <<>> }

\* every ffmpeg run of the mux loop succeeded
AllMuxed == \A k \in 1..Len(mux_attempts) : mux_attempts[k].outcome = "ok"

\* C29: in a manifest written after a mux loop without a failure, video_files has as
\* many entries as audio_tracks, and every track has the output file written for it,
\* whatever the detected language and the requested target languages.
C29_OneVideoFilePerTrack ==
    (manifest.written /\ AllMuxed) =>
        /\ Cardinality(ManifestVideoKeys) = Len(manifest.audio_tracks)
        /\ \A k \in 1..Len(audio_tracks) :
              manifest.video_files[audio_tracks[k].lang] = TrackOutput(k, audio_tracks[k])

\* translate_segments has returned
Translated == pc = "translated"

\* the call takes the Whisper branch: a target English and a source that is not
WhisperPair == target_lang = "en" /\ detected_lang # "en"

\* the list returned has the length, the order and the segment bounds of the input
SameFrame(input, output) ==
    /\ Len(output) = Len(input)
    /\ \A k \in 1..Len(input) :
          output[k].start = input[k].start /\ output[k].end = input[k].end

\* C30 as stated: for every segment list and every language pair, translate_segments
\* returns a list with the length, the order and the segment bounds of its input.
C30_Original == Translated => SameFrame(segments_original, segments)

\* C30: for every language pair outside the Whisper branch, translate_segments
\* returns a list with the length, the order and the segment bounds of its input, in
\* which a segment is either the input segment itself (always so for a blank or empty
\* text) or the input segment with a translated text; for a target English and
\* another source it returns the segments of one new Whisper translation of the audio.
C30_FrameKeptOutsideWhisper ==
    Translated =>
        IF WhisperPair
        THEN segments \in PivotResults /\ whisper_calls.translate = 1
        ELSE /\ SameFrame(segments_original, segments)
             /\ whisper_calls.translate = 0
             /\ \A k \in 1..Len(segments_original) :
                   \/ segments[k] = segments_original[k]
                   \/ /\ Strip(segments_original[k].text) # <<>>
                      /\ lastReq.result = "model"
                      /\ segments[k].text # segments_original[k].text
                      /\ Len(segments[k].text) = Len(Strip(segments_original[k].text))

\* an English list of two segments translated into Malayalam: the translation of the
\* first segment raised, the second was translated
C30_Witness ==
    /\ Translated /\ detected_lang = "en" /\ target_lang = "ml"
    /\ Len(segments_original) = 2
    /\ Strip(segments_original[1].text) # <<>>
    /\ segments[1] = segments_original[1]
    /\ segments[2].text # segments_original[2].text

====
